---- MODULE Spec2Model ----
(***************************************************************************)
(* Model of services/replicate-poc/translicate_consumer.py: the           *)
(* replication consumer that replays the primary's DDL log and applies    *)
(* the row changes of each WAL message to the replica.                    *)
(*                                                                         *)
(* handle_message is single threaded; its position is pc:                 *)
(*   "recv"  waiting in consume_stream for the next message               *)
(*   "poll"  lines 193-196   "dml"  lines 198-215   "sweep" lines 217-228 *)
(*   "sync"  lines 230-233   "ack"  line 235                              *)
(*   "crashed" an exception left handle_message and ended main()          *)
(*                                                                         *)
(* Spec is the consumer; SpecCodec applies the LSN codec of lines 53-64    *)
(* on its own to integers of the whole 64-bit range.                       *)
(***************************************************************************)
EXTENDS Integers, Sequences, FiniteSets, TLC

VARIABLES
    pc,                   \* position inside consume_stream / handle_message
    msg,                  \* the message being handled: data_start, change
    nmsgs,                \* number of messages received so far
    wal_lsn_str,          \* line 190
    applied_ddl_lsn_str,  \* nonlocal of main(), lines 160, 178, 194
    applied_ddl_lsn_int,  \* nonlocal of main(), lines 161, 179, 195
    BUFFERED_DMLS,        \* module global, line 37: sequence of <<lsn, change>>
    ddl_log,              \* rows of translicate_ddl_log on the primary
    stream,               \* history: the messages received, in order
    polls,                \* history: per message, what its poll was given and did
    dml_calls,            \* history: the calls of apply_dml, in call order
    seq_calls,            \* history: the calls of sync_sequences, each with the
                          \*   number of apply_dml calls made before it
    acks,                 \* history: flush_lsn of each send_feedback, each with the
                          \*   number of sync_sequences calls made before it
    codec                 \* the LSN codec applied on its own: arguments and results

main_vars == <<pc, msg, nmsgs, wal_lsn_str, applied_ddl_lsn_str, applied_ddl_lsn_int,
               BUFFERED_DMLS, ddl_log, stream, polls, dml_calls, seq_calls, acks>>

vars == <<main_vars, codec>>

(***************************************************************************)
(* Bounds of the model.                                                    *)
(***************************************************************************)
MaxMsgs == 2          \* messages delivered by the stream in one run
MaxChanges == 2       \* row changes carried by one message
MaxTotalChanges == 2  \* row changes carried by all messages of one run
NumSeqs == 2          \* rows returned by SEQ_QUERY
MsgLsns == {8, 10}    \* msg.data_start values
DdlLsns == {5, 10}    \* lsn values of the rows written to translicate_ddl_log

(***************************************************************************)
(* LSN codec.  A hexadecimal string is the sequence of its digit values,  *)
(* an LSN string the record of the two strings around the '/'.  The       *)
(* pg_lsn values of the DDL log stay below 2^31; for them the shift by    *)
(* 32 is written as two shifts by 16.                                     *)
(***************************************************************************)
RECURSIVE HexFormat(_)
HexFormat(n) ==       \* f"{n:x}"
    IF n < 16 THEN <<n>> ELSE Append(HexFormat(n \div 16), n % 16)

RECURSIVE HexParse(_)
HexParse(s) ==        \* int(s, 16)
    IF Len(s) = 1 THEN s[1]
    ELSE HexParse(SubSeq(s, 1, Len(s) - 1)) * 16 + s[Len(s)]

ShiftLeft32(x) == (x * 65536) * 65536
ShiftRight32(x) == (x \div 65536) \div 65536
MaskLow32(x) == x - ShiftLeft32(ShiftRight32(x))

ZeroLsn == [high |-> <<0>>, low |-> <<0>>]     \* '0/0'

(***************************************************************************)
(* Python integers of any size: the sequence of base-65536 digits, most   *)
(* significant first, without leading zeros (<<0>> is 0).                  *)
(***************************************************************************)
RECURSIVE WideNormalize(_)
WideNormalize(w) ==
    IF Len(w) > 1 /\ w[1] = 0 THEN WideNormalize(Tail(w)) ELSE w

Front(w) == SubSeq(w, 1, Len(w) - 1)

RECURSIVE IntToWide(_)
IntToWide(n) == IF n < 65536 THEN <<n>> ELSE Append(IntToWide(n \div 65536), n % 65536)

RECURSIVE WideToInt(_)
WideToInt(w) ==       \* for values below 2^31
    IF Len(w) = 1 THEN w[1] ELSE WideToInt(Front(w)) * 65536 + w[Len(w)]

WideShiftLeft32(w) == WideNormalize(w \o <<0, 0>>)                      \* w << 32
WideShiftRight32(w) == IF Len(w) <= 2 THEN <<0>> ELSE SubSeq(w, 1, Len(w) - 2)   \* w >> 32
WideMaskLow32(w) ==                                                    \* w & 0xFFFFFFFF
    WideNormalize(IF Len(w) <= 2 THEN w ELSE SubSeq(w, Len(w) - 1, Len(w)))

RECURSIVE WideAddCarry(_, _, _)
WideAddCarry(a, b, carry) ==
    IF a = <<>> /\ b = <<>> THEN (IF carry = 0 THEN <<>> ELSE <<carry>>)
    ELSE LET la == IF a = <<>> THEN 0 ELSE a[Len(a)]
             lb == IF b = <<>> THEN 0 ELSE b[Len(b)]
             sum == la + lb + carry
         IN  Append(WideAddCarry(IF a = <<>> THEN a ELSE Front(a),
                                 IF b = <<>> THEN b ELSE Front(b), sum \div 65536),
                    sum % 65536)

WideAdd(a, b) == WideNormalize(WideAddCarry(a, b, 0))                  \* a + b

Pad4(digits) == [i \in 1..(4 - Len(digits)) |-> 0] \o digits

RECURSIVE WideHexFormat(_)
WideHexFormat(w) ==   \* f"{w:x}"
    IF Len(w) = 1 THEN HexFormat(w[1])
    ELSE WideHexFormat(Front(w)) \o Pad4(HexFormat(w[Len(w)]))

RECURSIVE WideHexParse(_)
WideHexParse(s) ==    \* int(s, 16)
    IF Len(s) <= 4 THEN <<HexParse(s)>>
    ELSE WideNormalize(Append(WideHexParse(SubSeq(s, 1, Len(s) - 4)),
                              HexParse(SubSeq(s, Len(s) - 3, Len(s)))))

\* Variant of int_to_lsn without the mask of line 63.
int_to_lsn_no_mask(lsn_int) ==
    IF lsn_int = <<0>> THEN ZeroLsn
    ELSE [high |-> WideHexFormat(WideShiftRight32(lsn_int)),
          low  |-> WideHexFormat(lsn_int)]

\* lines 53-57 and 59-64 on integers of any size
lsn_to_int_wide(lsn_str) ==
    IF lsn_str = ZeroLsn THEN <<0>>
    ELSE WideAdd(WideShiftLeft32(WideHexParse(lsn_str.high)), WideHexParse(lsn_str.low))

int_to_lsn_wide(lsn_int) ==
    IF lsn_int = <<0>> THEN ZeroLsn
    ELSE [high |-> WideHexFormat(WideShiftRight32(lsn_int)),
          low  |-> WideHexFormat(WideMaskLow32(lsn_int))]

\* the same two functions for the handler, whose LSNs stay below 2^31
lsn_to_int(lsn_str) == WideToInt(lsn_to_int_wide(lsn_str))

int_to_lsn(lsn_int) == int_to_lsn_wide(IntToWide(lsn_int))

(***************************************************************************)
(* The primary's DDL log and DDL_LOG_QUERY.  A row is [lsn, ddl]; lsn is  *)
(* the pg_lsn column as text, ddl the statement, kept as the two facts    *)
(* line 142 reads from its lower-cased text.                               *)
(***************************************************************************)
PgLsnText(n) == [high |-> HexFormat(ShiftRight32(n)), low |-> HexFormat(MaskLow32(n))]
PgLsnValue(s) == ShiftLeft32(HexParse(s.high)) + HexParse(s.low)

DdlStatements ==
    { [has_ddl_log |-> FALSE, has_publication |-> FALSE],   \* CREATE TABLE t (...)
      [has_ddl_log |-> TRUE,  has_publication |-> FALSE],   \* ... translicate_ddl_log ...
      [has_ddl_log |-> FALSE, has_publication |-> TRUE] }   \* ALTER PUBLICATION ...

RECURSIVE OrderByLsn(_)
OrderByLsn(rows) ==
    IF rows = {} THEN <<>>
    ELSE LET first == CHOOSE r \in rows :
                          \A q \in rows : PgLsnValue(r.lsn) <= PgLsnValue(q.lsn)
         IN  <<first>> \o OrderByLsn(rows \ {first})

\* Variant of the query without its WHERE clause.
DDL_LOG_QUERY_all_rows(rows, last_lsn_str) == OrderByLsn(rows)

DDL_LOG_QUERY(rows, last_lsn_str) ==
    OrderByLsn({ r \in rows : PgLsnValue(r.lsn) > PgLsnValue(last_lsn_str) })


(***************************************************************************)
(* poll_and_apply_ddls, lines 130-157.  rejected is the set of lsn texts  *)
(* whose statement the replica refuses in this poll (line 149 raises).    *)
(* The result is the returned applied_lsn_str and what was done per row.  *)
(***************************************************************************)
IsSkippedDdl(ddl) == ddl.has_ddl_log \/ ddl.has_publication      \* line 142

RECURSIVE PollLoop(_, _, _, _)
PollLoop(ddls, i, applied_lsn_str, rejected) ==
    IF i > Len(ddls) THEN [lsn |-> applied_lsn_str, done |-> <<>>]
    ELSE LET lsn == ddls[i].lsn
             ddl == ddls[i].ddl
         IN  IF IsSkippedDdl(ddl)
             THEN LET rest == PollLoop(ddls, i + 1, lsn, rejected)
                  IN  [lsn |-> rest.lsn,
                       done |-> <<[lsn |-> lsn, outcome |-> "skipped"]>> \o rest.done]
             ELSE IF lsn \in rejected
             THEN [lsn |-> applied_lsn_str,
                   done |-> <<[lsn |-> lsn, outcome |-> "failed"]>>]
             ELSE LET rest == PollLoop(ddls, i + 1, lsn, rejected)
                  IN  [lsn |-> rest.lsn,
                       done |-> <<[lsn |-> lsn, outcome |-> "applied"]>> \o rest.done]

\* Variant of the loop without the break of line 155: a failed row is passed over.
RECURSIVE PollLoopNoBreak(_, _, _, _)
PollLoopNoBreak(ddls, i, applied_lsn_str, rejected) ==
    IF i > Len(ddls) THEN [lsn |-> applied_lsn_str, done |-> <<>>]
    ELSE LET lsn == ddls[i].lsn
             outcome == IF IsSkippedDdl(ddls[i].ddl) THEN "skipped"
                        ELSE IF lsn \in rejected THEN "failed" ELSE "applied"
             rest == PollLoopNoBreak(ddls, i + 1,
                         IF outcome = "failed" THEN applied_lsn_str ELSE lsn, rejected)
         IN  [lsn |-> rest.lsn,
              done |-> <<[lsn |-> lsn, outcome |-> outcome]>> \o rest.done]

poll_and_apply_ddls_no_break(rows, last_lsn_str, rejected) ==
    PollLoopNoBreak(DDL_LOG_QUERY(rows, last_lsn_str), 1, last_lsn_str, rejected)

\* Variant that sets applied_lsn_str before the try of line 148: the mark moves
\* to a row whose execution then fails.
poll_and_apply_ddls_marks_failed(rows, last_lsn_str, rejected) ==
    LET res == PollLoop(DDL_LOG_QUERY(rows, last_lsn_str), 1, last_lsn_str, rejected)
        n == Len(res.done)
    IN  IF n > 0 /\ res.done[n].outcome = "failed"
        THEN [lsn |-> res.done[n].lsn, done |-> res.done]
        ELSE res

\* Variant without the assignment of line 144: a skipped row leaves the mark alone.
RECURSIVE PollLoopSkipKeepsMark(_, _, _, _)
PollLoopSkipKeepsMark(ddls, i, applied_lsn_str, rejected) ==
    IF i > Len(ddls) THEN [lsn |-> applied_lsn_str, done |-> <<>>]
    ELSE LET lsn == ddls[i].lsn
         IN  IF IsSkippedDdl(ddls[i].ddl)
             THEN LET rest == PollLoopSkipKeepsMark(ddls, i + 1, applied_lsn_str, rejected)
                  IN  [lsn |-> rest.lsn,
                       done |-> <<[lsn |-> lsn, outcome |-> "skipped"]>> \o rest.done]
             ELSE IF lsn \in rejected
             THEN [lsn |-> applied_lsn_str,
                   done |-> <<[lsn |-> lsn, outcome |-> "failed"]>>]
             ELSE LET rest == PollLoopSkipKeepsMark(ddls, i + 1, lsn, rejected)
                  IN  [lsn |-> rest.lsn,
                       done |-> <<[lsn |-> lsn, outcome |-> "applied"]>> \o rest.done]

poll_and_apply_ddls_skip_keeps_mark(rows, last_lsn_str, rejected) ==
    PollLoopSkipKeepsMark(DDL_LOG_QUERY(rows, last_lsn_str), 1, last_lsn_str, rejected)

poll_and_apply_ddls(rows, last_lsn_str, rejected) ==
    PollLoop(DDL_LOG_QUERY(rows, last_lsn_str), 1, last_lsn_str, rejected)

(***************************************************************************)
(* apply_dml, lines 76-105.  A change is [id, table, kind, oldkeys,       *)
(* columns, rejected]: table and kind are the values of those keys        *)
(* (NoTable, NoKind when the record lacks the key), columns says whether  *)
(* the record has 'columnnames' and 'columnvalues', oldkeys whether it    *)
(* has 'oldkeys', rejected whether the replica refuses the statement      *)
(* built from it.  Lines 77-80 read the four keys before the try of line  *)
(* 82: a record lacking one raises KeyError out of apply_dml ("raised").  *)
(* What happens inside the try returns normally to the caller.            *)
(***************************************************************************)
NoTable == "<no table>"
NoKind == "<no kind>"

Execute(change) == IF change.rejected THEN "error" ELSE "executed"

apply_dml(change) ==
    IF change.table = NoTable THEN "raised"                          \* line 77
    ELSE IF ~change.columns THEN "raised"                            \* lines 78-79
    ELSE IF change.kind = NoKind THEN "raised"                       \* line 80
    ELSE IF change.kind = "insert" THEN Execute(change)
    ELSE IF change.kind = "update"
         THEN IF change.oldkeys THEN Execute(change) ELSE "error"    \* KeyError, line 89
    ELSE IF change.kind = "delete"
         THEN IF change.oldkeys THEN Execute(change) ELSE "error"    \* KeyError, line 97
    ELSE "unsupported"                                               \* line 103

DmlCall(lsn, change, path, during) ==
    [id |-> change.id, lsn |-> lsn, path |-> path, during |-> during,
     outcome |-> apply_dml(change)]

(***************************************************************************)
(* handle_message, lines 202-215: the loop over the message's changes.    *)
(* The result is the buffer and the apply_dml calls after change i.., and *)
(* whether an apply_dml call raised: handle_message has no try, so the    *)
(* exception ends the loop and leaves handle_message.                      *)
(***************************************************************************)
DdlLogTable == "translicate_ddl_log"

\* Variant of the loop without the test of line 203: no change is skipped.
RECURSIVE ProcessChangesNoSkip(_, _, _, _, _, _, _)
ProcessChangesNoSkip(changes, i, data_start, ddl_lsn_int, buffer, calls, during) ==
    IF i > Len(changes) THEN [buffer |-> buffer, calls |-> calls, raised |-> FALSE]
    ELSE IF data_start > ddl_lsn_int
         THEN ProcessChangesNoSkip(changes, i + 1, data_start, ddl_lsn_int,
                                   Append(buffer, <<data_start, changes[i]>>), calls, during)
         ELSE LET call == DmlCall(data_start, changes[i], "immediate", during)
              IN  IF call.outcome = "raised"
                  THEN [buffer |-> buffer, calls |-> Append(calls, call), raised |-> TRUE]
                  ELSE ProcessChangesNoSkip(changes, i + 1, data_start, ddl_lsn_int,
                                            buffer, Append(calls, call), during)

\* Variant of the loop with >= in the comparison of line 210.
RECURSIVE ProcessChangesBuffersAtMark(_, _, _, _, _, _, _)
ProcessChangesBuffersAtMark(changes, i, data_start, ddl_lsn_int, buffer, calls, during) ==
    IF i > Len(changes) THEN [buffer |-> buffer, calls |-> calls, raised |-> FALSE]
    ELSE IF changes[i].table = DdlLogTable
         THEN ProcessChangesBuffersAtMark(changes, i + 1, data_start, ddl_lsn_int,
                                          buffer, calls, during)
         ELSE IF data_start >= ddl_lsn_int
         THEN ProcessChangesBuffersAtMark(changes, i + 1, data_start, ddl_lsn_int,
                                          Append(buffer, <<data_start, changes[i]>>),
                                          calls, during)
         ELSE LET call == DmlCall(data_start, changes[i], "immediate", during)
              IN  IF call.outcome = "raised"
                  THEN [buffer |-> buffer, calls |-> Append(calls, call), raised |-> TRUE]
                  ELSE ProcessChangesBuffersAtMark(changes, i + 1, data_start,
                                                   ddl_lsn_int, buffer,
                                                   Append(calls, call), during)

RECURSIVE ProcessChanges(_, _, _, _, _, _, _)
ProcessChanges(changes, i, data_start, ddl_lsn_int, buffer, calls, during) ==
    IF i > Len(changes) THEN [buffer |-> buffer, calls |-> calls, raised |-> FALSE]
    ELSE LET change == changes[i]
             lsn == data_start
         IN  IF change.table = DdlLogTable
             THEN ProcessChanges(changes, i + 1, data_start, ddl_lsn_int,
                                 buffer, calls, during)
             ELSE IF lsn > ddl_lsn_int
             THEN ProcessChanges(changes, i + 1, data_start, ddl_lsn_int,
                                 Append(buffer, <<lsn, change>>), calls, during)
             ELSE LET call == DmlCall(lsn, change, "immediate", during)
                  IN  IF call.outcome = "raised"
                      THEN [buffer |-> buffer, calls |-> Append(calls, call),
                            raised |-> TRUE]
                      ELSE ProcessChanges(changes, i + 1, data_start, ddl_lsn_int,
                                          buffer, Append(calls, call), during)

(***************************************************************************)
(* handle_message, lines 217-228: the sweep of BUFFERED_DMLS.  When an    *)
(* apply_dml call raises, the loop ends there and line 227 is not         *)
(* reached: the list stays as it was before the sweep.                     *)
(***************************************************************************)
\* Variant of the comparison of line 222 with < in place of <=.
SweepAppliesBelow(entry, data_start) == entry[1] < data_start

SweepApplies(entry, data_start) == entry[1] <= data_start          \* line 222

RECURSIVE SweepLoop(_, _, _, _, _, _)
SweepLoop(buffer, i, data_start, still_buffered, calls, during) ==
    IF i > Len(buffer)
    THEN [buffer |-> still_buffered, calls |-> calls, raised |-> FALSE]
    ELSE IF SweepApplies(buffer[i], data_start)
         THEN LET call == DmlCall(buffer[i][1], buffer[i][2], "sweep", during)
              IN  IF call.outcome = "raised"
                  THEN [buffer |-> buffer, calls |-> Append(calls, call), raised |-> TRUE]
                  ELSE SweepLoop(buffer, i + 1, data_start, still_buffered,
                                 Append(calls, call), during)
         ELSE SweepLoop(buffer, i + 1, data_start,
                        Append(still_buffered, buffer[i]), calls, during)

NoSweep(buffer, calls) == [buffer |-> buffer, calls |-> calls, raised |-> FALSE]

\* Variant without the write-back of line 227: applied entries stay buffered.
SweepKeepsApplied(buffer, data_start, calls, during) ==
    IF buffer # <<>>
    THEN [SweepLoop(buffer, 1, data_start, <<>>, calls, during) EXCEPT !.buffer = buffer]
    ELSE NoSweep(buffer, calls)

\* Variant of the sweep that walks the buffer from its newest entry.
SweepNewestFirst(buffer, data_start, calls, during) ==
    IF buffer # <<>>
    THEN LET res == SweepLoop([i \in 1..Len(buffer) |-> buffer[Len(buffer) + 1 - i]], 1,
                              data_start, <<>>, calls, during)
         IN  IF res.raised THEN [res EXCEPT !.buffer = buffer] ELSE res
    ELSE NoSweep(buffer, calls)

Sweep(buffer, data_start, calls, during) ==
    IF buffer # <<>>                                               \* line 218
    THEN SweepLoop(buffer, 1, data_start, <<>>, calls, during)
    ELSE NoSweep(buffer, calls)

(***************************************************************************)
(* sync_sequences, lines 117-128.  fault is the row of SEQ_QUERY whose    *)
(* setval the replica refuses (0: none).  No statement of the function is *)
(* inside a try, so the exception leaves it.                               *)
(***************************************************************************)
sync_sequences(fault) ==
    IF fault = 0
    THEN [set |-> [k \in 1..NumSeqs |-> k], raised |-> FALSE]
    ELSE [set |-> [k \in 1..(fault - 1) |-> k], raised |-> TRUE]

(***************************************************************************)
(* Inputs.                                                                 *)
(***************************************************************************)
ChangeShapes ==
    { [table |-> "t", kind |-> "insert", oldkeys |-> FALSE, columns |-> TRUE,
       rejected |-> FALSE],
      [table |-> "t", kind |-> "update", oldkeys |-> FALSE, columns |-> TRUE,
       rejected |-> FALSE],
      [table |-> "t", kind |-> "delete", oldkeys |-> TRUE, columns |-> TRUE,
       rejected |-> TRUE],
      [table |-> "t", kind |-> "truncate", oldkeys |-> FALSE, columns |-> TRUE,
       rejected |-> FALSE],
      \* a delete as wal2json writes it: 'oldkeys' and no column lists
      [table |-> "t", kind |-> "delete", oldkeys |-> TRUE, columns |-> FALSE,
       rejected |-> FALSE],
      \* a record without the 'table' key
      [table |-> NoTable, kind |-> "insert", oldkeys |-> FALSE, columns |-> TRUE,
       rejected |-> FALSE],
      [table |-> DdlLogTable, kind |-> "insert", oldkeys |-> FALSE, columns |-> TRUE,
       rejected |-> FALSE] }

ChangeLists == UNION { [1..n -> ChangeShapes] : n \in 0..MaxChanges }

WithIds(shapes, m) ==
    [i \in 1..Len(shapes) |->
        [id |-> <<m, i>>, table |-> shapes[i].table, kind |-> shapes[i].kind,
         oldkeys |-> shapes[i].oldkeys, columns |-> shapes[i].columns,
         rejected |-> shapes[i].rejected]]

Received == IF nmsgs = 0 THEN 0 ELSE msg.total

(***************************************************************************)
(* State machine.                                                          *)
(***************************************************************************)
CodecIdle ==
    [stage |-> "idle", x |-> <<0>>, y |-> <<0>>, sx |-> ZeroLsn, sy |-> ZeroLsn,
     bx |-> <<0>>, by |-> <<0>>]

MainStart ==
    /\ pc = "recv"
    /\ msg = [data_start |-> 0, change |-> <<>>, total |-> 0]
    /\ nmsgs = 0
    /\ wal_lsn_str = ZeroLsn
    /\ applied_ddl_lsn_str = ZeroLsn                         \* line 178
    /\ applied_ddl_lsn_int = lsn_to_int(ZeroLsn)             \* line 179
    /\ BUFFERED_DMLS = <<>>                                  \* line 37
    /\ ddl_log = {}
    /\ stream = <<>>
    /\ polls = <<>>
    /\ dml_calls = <<>>
    /\ seq_calls = <<>>
    /\ acks = <<>>

Init == MainStart /\ codec = CodecIdle

\* The primary records a schema change; its lsn is above every earlier row's.
AppendDdl ==
    /\ pc = "recv"
    /\ \E n \in DdlLsns, ddl \in DdlStatements :
          /\ \A r \in ddl_log : PgLsnValue(r.lsn) < n
          /\ ddl_log' = ddl_log \cup {[lsn |-> PgLsnText(n), ddl |-> ddl]}
    /\ UNCHANGED <<codec, pc, msg, nmsgs, wal_lsn_str, applied_ddl_lsn_str,
                   applied_ddl_lsn_int, BUFFERED_DMLS, stream, polls, dml_calls,
                   seq_calls, acks>>

\* consume_stream delivers the next message; lines 181-191.
Receive ==
    /\ pc = "recv"
    /\ nmsgs < MaxMsgs
    /\ \E data_start \in MsgLsns, shapes \in ChangeLists :
          /\ Received + Len(shapes) <= MaxTotalChanges
          /\ msg' = [data_start |-> data_start,
                     change |-> WithIds(shapes, nmsgs + 1),
                     total |-> Received + Len(shapes)]
          /\ wal_lsn_str' = int_to_lsn(data_start)
    /\ stream' = Append(stream, msg')
    /\ nmsgs' = nmsgs + 1
    /\ pc' = "poll"
    /\ UNCHANGED <<codec, applied_ddl_lsn_str, applied_ddl_lsn_int, BUFFERED_DMLS,
                   ddl_log, polls, dml_calls, seq_calls, acks>>

\* lines 193-196; the replica refuses at most one of the fetched statements
Poll ==
    /\ pc = "poll"
    /\ LET ddls == DDL_LOG_QUERY(ddl_log, applied_ddl_lsn_str)
           executable == { ddls[i].lsn :
                              i \in { j \in DOMAIN ddls : ~IsSkippedDdl(ddls[j].ddl) } }
       IN  \E rejected \in {{}} \cup { {lsn} : lsn \in executable } :
          LET res == poll_and_apply_ddls(ddl_log, applied_ddl_lsn_str, rejected)
          IN  /\ applied_ddl_lsn_str' = res.lsn
              /\ applied_ddl_lsn_int' = lsn_to_int(res.lsn)
              /\ polls' = Append(polls, [since |-> applied_ddl_lsn_str,
                                         ddls |-> ddls, done |-> res.done,
                                         returned |-> res.lsn])
    /\ pc' = "dml"
    /\ UNCHANGED <<codec, msg, nmsgs, wal_lsn_str, BUFFERED_DMLS, ddl_log, stream,
                   dml_calls, seq_calls, acks>>

\* lines 198-215
ApplyOrBuffer ==
    /\ pc = "dml"
    /\ LET res == ProcessChanges(msg.change, 1, msg.data_start, applied_ddl_lsn_int,
                                 BUFFERED_DMLS, dml_calls, nmsgs)
       IN  /\ BUFFERED_DMLS' = res.buffer
           /\ dml_calls' = res.calls
           /\ pc' = IF res.raised THEN "crashed" ELSE "sweep"
    /\ UNCHANGED <<codec, msg, nmsgs, wal_lsn_str, applied_ddl_lsn_str, applied_ddl_lsn_int,
                   ddl_log, stream, polls, seq_calls, acks>>

\* lines 217-228
SweepBuffer ==
    /\ pc = "sweep"
    /\ LET res == Sweep(BUFFERED_DMLS, msg.data_start, dml_calls, nmsgs)
       IN  /\ BUFFERED_DMLS' = res.buffer
           /\ dml_calls' = res.calls
           /\ pc' = IF res.raised THEN "crashed" ELSE "sync"
    /\ UNCHANGED <<codec, msg, nmsgs, wal_lsn_str, applied_ddl_lsn_str, applied_ddl_lsn_int,
                   ddl_log, stream, polls, seq_calls, acks>>

\* Variant without the test of line 231: the resync runs for every message.
SyncSequencesAlways ==
    /\ pc = "sync"
    /\ \E fault \in 0..NumSeqs :
          LET res == sync_sequences(fault)
          IN  /\ seq_calls' = Append(seq_calls,
                     [during |-> nmsgs, fault |-> fault, set |-> res.set,
                      raised |-> res.raised, ndml |-> Len(dml_calls)])
              /\ pc' = IF res.raised THEN "crashed" ELSE "ack"
    /\ UNCHANGED <<codec, msg, nmsgs, wal_lsn_str, applied_ddl_lsn_str, applied_ddl_lsn_int,
                   BUFFERED_DMLS, ddl_log, stream, polls, dml_calls, acks>>

\* lines 230-233
SyncSequences ==
    /\ pc = "sync"
    /\ IF msg.change # <<>>                                   \* line 231
       THEN \E fault \in 0..NumSeqs :
               LET res == sync_sequences(fault)
               IN  /\ seq_calls' = Append(seq_calls,
                          [during |-> nmsgs, fault |-> fault, set |-> res.set,
                           raised |-> res.raised, ndml |-> Len(dml_calls)])
                   /\ pc' = IF res.raised THEN "crashed" ELSE "ack"
       ELSE /\ seq_calls' = seq_calls
            /\ pc' = "ack"
    /\ UNCHANGED <<codec, msg, nmsgs, wal_lsn_str, applied_ddl_lsn_str, applied_ddl_lsn_int,
                   BUFFERED_DMLS, ddl_log, stream, polls, dml_calls, acks>>

\* line 235
Acknowledge ==
    /\ pc = "ack"
    /\ acks' = Append(acks, [flush_lsn |-> msg.data_start, during |-> nmsgs,
                              nseq |-> Len(seq_calls)])
    /\ pc' = "recv"
    /\ UNCHANGED <<codec, msg, nmsgs, wal_lsn_str, applied_ddl_lsn_str, applied_ddl_lsn_int,
                   BUFFERED_DMLS, ddl_log, stream, polls, dml_calls, seq_calls>>

Next ==
    \/ AppendDdl
    \/ Receive
    \/ Poll
    \/ ApplyOrBuffer
    \/ SweepBuffer
    \/ SyncSequences
    \/ Acknowledge

Spec == Init /\ [][Next]_vars

(***************************************************************************)
(* The LSN codec on its own, lines 53-64: two LSN integers of the 64-bit   *)
(* unsigned range are encoded by int_to_lsn and the texts decoded by       *)
(* lsn_to_int.                                                             *)
(***************************************************************************)
HighHalves == { <<0, 0>>, <<0, 1>>, <<1, 0>>, <<65535, 65535>> }
LowHalves  == { <<0, 0>>, <<0, 1>>, <<0, 10>>, <<1, 0>>, <<32768, 0>>, <<65535, 65535>> }
LsnInts == { WideNormalize(h \o l) : h \in HighHalves, l \in LowHalves }

InitCodec ==
    /\ MainStart
    /\ \E x \in LsnInts, y \in LsnInts :
          codec = [stage |-> "args", x |-> x, y |-> y, sx |-> ZeroLsn, sy |-> ZeroLsn,
                   bx |-> <<0>>, by |-> <<0>>]

Encode ==
    /\ codec.stage = "args"
    /\ codec' = [codec EXCEPT !.stage = "encoded",
                               !.sx = int_to_lsn_wide(codec.x),
                               !.sy = int_to_lsn_wide(codec.y)]
    /\ UNCHANGED main_vars

Decode ==
    /\ codec.stage = "encoded"
    /\ codec' = [codec EXCEPT !.stage = "decoded",
                               !.bx = lsn_to_int_wide(codec.sx),
                               !.by = lsn_to_int_wide(codec.sy)]
    /\ UNCHANGED main_vars

NextCodec == Encode \/ Decode

SpecCodec == InitCodec /\ [][NextCodec]_vars

(***************************************************************************)
(* Views of the history used by the properties.                            *)
(***************************************************************************)
\* lsn texts of the DDL log rows applied or skipped on the replica so far
DdlDone ==
    UNION { { polls[k].done[i].lsn :
                i \in { j \in DOMAIN polls[k].done : polls[k].done[j].outcome # "failed" } } :
            k \in DOMAIN polls }

PollFailed(k) == \E i \in DOMAIN polls[k].done : polls[k].done[i].outcome = "failed"

CallIds == { dml_calls[i].id : i \in DOMAIN dml_calls }
BufferIds == { BUFFERED_DMLS[i][2].id : i \in DOMAIN BUFFERED_DMLS }
CallsOf(id) == { i \in DOMAIN dml_calls : dml_calls[i].id = id }
AcksOf(k) == { i \in DOMAIN acks : acks[i].during = k }

\* the row changes of message k that are not against the DDL log table
RowChanges(k) ==
    { stream[k].change[j] :
        j \in { n \in DOMAIN stream[k].change : stream[k].change[n].table # DdlLogTable } }

\* an apply_dml call has raised, which ended main()
DmlRaised == \E i \in DOMAIN dml_calls : dml_calls[i].outcome = "raised"

\* handle_message has passed the sweep of message k / has returned or raised /
\* has returned
Swept(k) ==
    \/ k < nmsgs
    \/ k = nmsgs /\ (pc \in {"sync", "ack", "recv"} \/ (pc = "crashed" /\ ~DmlRaised))
Finished(k) == k < nmsgs \/ (k = nmsgs /\ pc \in {"recv", "crashed"})
Returned(k) == k < nmsgs \/ (k = nmsgs /\ pc = "recv")

(***************************************************************************)
(* C1.  No row change carried by a message with LSN L is passed to         *)
(* apply_dml unless every DDL log row with lsn <= L has been applied or    *)
(* skipped on the replica.  The log and the set of applied rows do not     *)
(* change between the poll of a message and its acknowledgment, so the     *)
(* calls made for the current message are judged against the current log. *)
(***************************************************************************)
C1_NoDmlBeforeItsDdl ==
    (nmsgs > 0 /\ pc # "recv") =>
        \A i \in DOMAIN dml_calls :
            dml_calls[i].during = nmsgs =>
                \A r \in ddl_log :
                    PgLsnValue(r.lsn) <= dml_calls[i].lsn => r.lsn \in DdlDone

(***************************************************************************)
(* C2.  When the poll of a message has failed on a DDL row, the sweep of   *)
(* that message applies no buffered change whose LSN is above              *)
(* last_applied_ddl_lsn: such changes stay buffered until a later poll     *)
(* advances last_applied_ddl_lsn.                                          *)
(***************************************************************************)
C2_BufferedWaitForFailedDdl ==
    \A i \in DOMAIN dml_calls :
        LET c == dml_calls[i]
        IN  (c.path = "sweep" /\ PollFailed(c.during)) =>
                c.lsn <= lsn_to_int(polls[c.during].returned)

(***************************************************************************)
(* C3.  With a DDL row at LSN 10 in the log, last_applied_ddl_lsn < 10     *)
(* and a message at LSN 8 carrying an insert: once the message's changes   *)
(* have been processed the insert is in the buffer, and it has not been    *)
(* passed to apply_dml.                                                    *)
(***************************************************************************)
C3_InsertAt8WaitsForDdlAt10 ==
    ( /\ nmsgs > 0
      /\ pc \in {"sweep", "sync", "ack", "crashed"}
      /\ msg.data_start = 8
      /\ \E r \in ddl_log : PgLsnValue(r.lsn) = 10
      /\ applied_ddl_lsn_int < 10 ) =>
        \A c \in RowChanges(nmsgs) :
            c.kind = "insert" => (c.id \in BufferIds /\ c.id \notin CallIds)

(***************************************************************************)
(* C4.  DDL replay is fail-stop: in a poll where the execution of a row    *)
(* d2 fails, d2 is the last row the poll touches, no fetched row after d2  *)
(* is executed or skipped, and the value returned is the lsn of the row    *)
(* handled just before d2 (the unchanged 'since' value if d2 was the       *)
(* first), which is below d2.                                              *)
(***************************************************************************)
C4_PollIsFailStop ==
    \A k \in DOMAIN polls :
        LET p == polls[k]
        IN  \A i \in DOMAIN p.done :
                p.done[i].outcome = "failed" =>
                    /\ i = Len(p.done)
                    /\ p.ddls[i].lsn = p.done[i].lsn
                    /\ \A j \in DOMAIN p.ddls :
                           j > i => \A n \in DOMAIN p.done : p.done[n].lsn # p.ddls[j].lsn
                    /\ p.returned = IF i = 1 THEN p.since ELSE p.done[i - 1].lsn
                    /\ PgLsnValue(p.returned) < PgLsnValue(p.done[i].lsn)

\* A first poll failed on its first row with a later row fetched, and the
\* second poll applied that row and failed on the next one.
C4_Witness ==
    /\ Len(polls) >= 2
    /\ Len(polls[1].ddls) = 2
    /\ Len(polls[1].done) = 1
    /\ polls[1].done[1].outcome = "failed"
    /\ polls[1].returned = ZeroLsn
    /\ Len(polls[2].done) = 2
    /\ polls[2].done[1].outcome = "applied"
    /\ polls[2].done[2].outcome = "failed"
    /\ polls[2].returned = polls[2].done[1].lsn

(***************************************************************************)
(* C5.  DDL retry: after a poll in which the row d2 failed, the next poll  *)
(* executes d2 again before it touches any row above d2, and              *)
(* last_applied_ddl_lsn never reaches d2 or more in a later poll unless    *)
(* d2 has been applied by then.                                            *)
(***************************************************************************)
C5_FailedDdlIsRetriedFirst ==
    \A k \in DOMAIN polls :
        PollFailed(k) =>
            LET d2 == polls[k].done[Len(polls[k].done)].lsn
            IN  /\ (k + 1 \in DOMAIN polls =>
                       \E j \in DOMAIN polls[k + 1].done :
                           /\ polls[k + 1].done[j].lsn = d2
                           /\ polls[k + 1].done[j].outcome \in {"applied", "failed"}
                           /\ \A i \in 1..(j - 1) :
                                  PgLsnValue(polls[k + 1].done[i].lsn) < PgLsnValue(d2))
                /\ \A n \in DOMAIN polls :
                       (n > k /\ PgLsnValue(polls[n].returned) >= PgLsnValue(d2)) =>
                           \E m \in (k + 1)..n : \E j \in DOMAIN polls[m].done :
                               /\ polls[m].done[j].lsn = d2
                               /\ polls[m].done[j].outcome = "applied"

\* The first poll failed on d2 with a later row in the log; the next poll
\* applied d2 and then the later row.
C5_Witness ==
    /\ Len(polls) >= 2
    /\ PollFailed(1)
    /\ Len(polls[1].ddls) = 2
    /\ Len(polls[2].done) = 2
    /\ polls[2].done[1].lsn = polls[1].done[1].lsn
    /\ polls[2].done[1].outcome = "applied"
    /\ polls[2].done[2].outcome = "applied"

(***************************************************************************)
(* C6.  Buffer drain: for a row change that was buffered with LSN m, the   *)
(* sweep that removes it from the buffer and applies it is the sweep of    *)
(* the later message whose poll advanced last_applied_ddl_lsn from below m *)
(* to m or more; and no entry with lsn <= last_applied_ddl_lsn is in the   *)
(* buffer after a sweep.                                                   *)
(***************************************************************************)
C6_DrainedBySweepAfterDdlAdvance ==
    /\ (nmsgs > 0 /\ pc \in {"sync", "ack", "recv", "crashed"}) =>
           \A i \in DOMAIN BUFFERED_DMLS : BUFFERED_DMLS[i][1] > applied_ddl_lsn_int
    /\ \A i \in DOMAIN dml_calls : \A k \in DOMAIN polls :
           LET c == dml_calls[i]
           IN  ( /\ c.path = "sweep"
                 /\ k > c.id[1]
                 /\ Swept(k)
                 /\ PgLsnValue(polls[k].since) < c.lsn
                 /\ PgLsnValue(polls[k].returned) >= c.lsn ) => c.during = k

(***************************************************************************)
(* C7.  Every row change that is not against the DDL log table is          *)
(* consumed exactly once.  In every state it has at most one apply_dml     *)
(* call and at most one buffer entry.  As long as the process has not      *)
(* crashed: it is never both in the buffer and applied (the step that      *)
(* applies a buffered entry removes it), once its message's changes are    *)
(* processed it is applied or buffered, and once the sweep has run it is   *)
(* applied.                                                                *)
(***************************************************************************)
C7_ConsumedExactlyOnce ==
    /\ \A i, j \in DOMAIN dml_calls : dml_calls[i].id = dml_calls[j].id => i = j
    /\ \A i, j \in DOMAIN BUFFERED_DMLS :
           BUFFERED_DMLS[i][2].id = BUFFERED_DMLS[j][2].id => i = j
    /\ pc # "crashed" =>
           /\ CallIds \cap BufferIds = {}
           /\ \A k \in DOMAIN stream : \A c \in RowChanges(k) :
                  /\ (k < nmsgs \/ pc \notin {"poll", "dml"}) =>
                         c.id \in CallIds \cup BufferIds
                  /\ Swept(k) => c.id \in CallIds

\* One change went through the buffer and another was applied immediately.
C7_Witness ==
    /\ pc = "recv"
    /\ \E i, j \in DOMAIN dml_calls :
           /\ dml_calls[i].path = "sweep"
           /\ dml_calls[j].path = "immediate"

(***************************************************************************)
(* C8.  Each message with LSN m is acknowledged exactly once, with flush   *)
(* position m: never twice, only after its poll, its changes, the sweep    *)
(* and the sequence resync are done, before the next message is received,  *)
(* and every message handle_message is no longer working on has its        *)
(* acknowledgment, also when its changes went through the buffer.          *)
(***************************************************************************)
C8_AcknowledgedExactlyOnce ==
    \A k \in DOMAIN stream :
        /\ Cardinality(AcksOf(k)) <= 1
        /\ \A i \in AcksOf(k) :
               /\ acks[i].flush_lsn = stream[k].data_start
               /\ k \in DOMAIN polls
               /\ \A c \in RowChanges(k) : c.id \in CallIds \cup BufferIds
               /\ stream[k].change # <<>> =>
                      \E n \in DOMAIN seq_calls :
                          seq_calls[n].during = k /\ ~seq_calls[n].raised
        /\ Finished(k) => Cardinality(AcksOf(k)) = 1

(***************************************************************************)
(* C9.  A failure while synchronizing one sequence does not stop the       *)
(* other sequences from being synchronized and does not abort the          *)
(* message: the message is acknowledged and the stream goes on.            *)
(***************************************************************************)
C9_SequenceFailureIsIsolated ==
    \A n \in DOMAIN seq_calls :
        LET s == seq_calls[n]
        IN  s.fault # 0 =>
                /\ { s.set[j] : j \in DOMAIN s.set } = (1..NumSeqs) \ {s.fault}
                /\ pc # "crashed"
                /\ Finished(s.during) => AcksOf(s.during) # {}

(***************************************************************************)
(* C10.  A failed apply_dml call (execution error, unsupported kind,       *)
(* missing old keys) is isolated to its change: the change is dropped and  *)
(* never retried, last_applied_ddl_lsn stays what the poll returned, the   *)
(* other changes of the message are still processed, and the message is    *)
(* still acknowledged.                                                     *)
(***************************************************************************)
C10_DmlFailureIsIsolated ==
    \A i \in DOMAIN dml_calls :
        LET c == dml_calls[i]
        IN  c.outcome # "executed" =>
                /\ Cardinality(CallsOf(c.id)) = 1
                /\ c.id \notin BufferIds
                /\ c.during = nmsgs => applied_ddl_lsn_str = polls[nmsgs].returned
                /\ Swept(c.during) => \A o \in RowChanges(c.during) : o.id \in CallIds
                /\ Finished(c.during) => AcksOf(c.during) # {}


(***************************************************************************)
(* C11.  A DDL log row whose statement mentions the DDL log table or a     *)
(* publication is never executed on the replica; unless an earlier row of  *)
(* the same poll failed, the poll passes over it and its returned mark is  *)
(* at or above that row's lsn (exactly that lsn when it is the last row    *)
(* handled), so the row changes of that message whose LSN is at or below   *)
(* the row's lsn are not buffered: each is passed to apply_dml            *)
(* immediately, in that message, unless an apply_dml call for an earlier   *)
(* change has raised and ended the process before the loop reached it.     *)
(***************************************************************************)
ArrivedBefore(a, b) == a[1] < b[1] \/ (a[1] = b[1] /\ a[2] < b[2])

RefersToAdmin(ddl) == ddl.has_ddl_log \/ ddl.has_publication

\* the loop over the changes of message k has run
Processed(k) == k < nmsgs \/ (k = nmsgs /\ pc \notin {"poll", "dml"})

C11_AdminDdlSkippedButCounted ==
    \A k \in DOMAIN polls :
        LET p == polls[k]
        IN  \A i \in DOMAIN p.ddls :
                RefersToAdmin(p.ddls[i].ddl) =>
                    /\ \A j \in DOMAIN p.done :
                           p.done[j].lsn = p.ddls[i].lsn => p.done[j].outcome = "skipped"
                    /\ (\A j \in DOMAIN p.done : j < i => p.done[j].outcome # "failed") =>
                           /\ i \in DOMAIN p.done
                           /\ p.done[i] = [lsn |-> p.ddls[i].lsn, outcome |-> "skipped"]
                           /\ PgLsnValue(p.returned) >= PgLsnValue(p.ddls[i].lsn)
                           /\ i = Len(p.done) => p.returned = p.ddls[i].lsn
                           /\ (Processed(k) /\
                               stream[k].data_start <= PgLsnValue(p.ddls[i].lsn)) =>
                                  \A c \in RowChanges(k) :
                                      /\ c.id \notin BufferIds
                                      /\ \A n \in CallsOf(c.id) :
                                             /\ dml_calls[n].path = "immediate"
                                             /\ dml_calls[n].during = k
                                      /\ \/ CallsOf(c.id) # {}
                                         \/ \E n \in DOMAIN dml_calls :
                                                /\ dml_calls[n].outcome = "raised"
                                                /\ ArrivedBefore(dml_calls[n].id, c.id)

\* A poll skipped an administrative row as its last row, and a row change of
\* that message at or below the row's lsn was applied immediately.
C11_Witness ==
    \E k \in DOMAIN polls :
        LET p == polls[k]
            n == Len(p.done)
        IN  /\ n > 0
            /\ RefersToAdmin(p.ddls[n].ddl)
            /\ p.done[n].outcome = "skipped"
            /\ p.returned = p.ddls[n].lsn
            /\ stream[k].data_start <= PgLsnValue(p.returned)
            /\ \E i \in DOMAIN dml_calls :
                   dml_calls[i].during = k /\ dml_calls[i].path = "immediate"


(***************************************************************************)
(* C12.  A row change whose table is the DDL log table is dropped: in      *)
(* every state it has no apply_dml call and is not in the buffer, whether  *)
(* the message's LSN is above last_applied_ddl_lsn or not.                 *)
(***************************************************************************)
DdlLogChanges(k) ==
    { stream[k].change[j] :
        j \in { n \in DOMAIN stream[k].change : stream[k].change[n].table = DdlLogTable } }

C12_DdlLogChangesDropped ==
    \A k \in DOMAIN stream : \A c \in DdlLogChanges(k) :
        c.id \notin CallIds \cup BufferIds

\* Two messages were handled to the end, each carrying a change against the
\* DDL log table: one with its LSN above the mark its poll returned (the
\* buffering side of line 210), one with its LSN at or below it.
C12_Witness ==
    /\ pc = "recv"
    /\ \E k, n \in DOMAIN polls :
           /\ DdlLogChanges(k) # {}
           /\ DdlLogChanges(n) # {}
           /\ stream[k].data_start > PgLsnValue(polls[k].returned)
           /\ stream[n].data_start <= PgLsnValue(polls[n].returned)


(***************************************************************************)
(* C13.  Buffer invariant.  When the loop over a message's changes has     *)
(* run, every entry it appended has an LSN strictly above                  *)
(* last_applied_ddl_lsn, which is the value the poll of that message       *)
(* returned, and every row change of the message at or below it was not    *)
(* appended; after the sweep of a message the buffer holds no entry whose  *)
(* LSN is at or below last_applied_ddl_lsn.                                *)
(***************************************************************************)
C13_BufferInvariant ==
    /\ (nmsgs > 0 /\ pc = "sweep") =>
           /\ applied_ddl_lsn_int = lsn_to_int(polls[nmsgs].returned)
           /\ \A i \in DOMAIN BUFFERED_DMLS :
                  BUFFERED_DMLS[i][2].id[1] = nmsgs =>
                      /\ BUFFERED_DMLS[i][1] = msg.data_start
                      /\ BUFFERED_DMLS[i][1] > applied_ddl_lsn_int
           /\ msg.data_start <= applied_ddl_lsn_int =>
                  \A c \in RowChanges(nmsgs) : c.id \notin BufferIds
    /\ (nmsgs > 0 /\ pc \in {"sync", "ack", "recv", "crashed"}) =>
           \A i \in DOMAIN BUFFERED_DMLS : BUFFERED_DMLS[i][1] > applied_ddl_lsn_int

\* The loop has appended an entry of the current message to the buffer.
C13_Witness ==
    /\ pc = "sweep"
    /\ \E i \in DOMAIN BUFFERED_DMLS :
           /\ BUFFERED_DMLS[i][2].id[1] = nmsgs
           /\ BUFFERED_DMLS[i][1] > applied_ddl_lsn_int
    /\ applied_ddl_lsn_int > 0


(***************************************************************************)
(* C14.  sync_sequences is called once for a processed message, one for    *)
(* which handle_message has returned, when its change list is not empty,   *)
(* and for no message whose change list is empty.  No message has more     *)
(* than one call.  The call comes after every apply_dml call of that       *)
(* message, from the loop and from the sweep, and before the message's     *)
(* acknowledgment.                                                         *)
(***************************************************************************)
SeqCallsOf(k) == { n \in DOMAIN seq_calls : seq_calls[n].during = k }

C14_ResyncOncePerNonEmptyMessage ==
    \A k \in DOMAIN stream :
        /\ Cardinality(SeqCallsOf(k)) <= 1
        /\ stream[k].change = <<>> => SeqCallsOf(k) = {}
        /\ (Returned(k) /\ stream[k].change # <<>>) => Cardinality(SeqCallsOf(k)) = 1
        /\ \A n \in SeqCallsOf(k) :
               /\ Swept(k)
               /\ \A c \in RowChanges(k) : c.id \in CallIds
               /\ \A i \in DOMAIN dml_calls :
                      dml_calls[i].during = k => i <= seq_calls[n].ndml
               /\ \A a \in AcksOf(k) : n <= acks[a].nseq

\* A message with an empty change list and a message whose change went
\* through the buffer were both handled to the end: the first without a
\* resync, the second with one between its swept change and its
\* acknowledgment.
C14_Witness ==
    /\ pc = "recv"
    /\ \E k, e \in DOMAIN stream :
           /\ stream[e].change = <<>>
           /\ SeqCallsOf(e) = {}
           /\ AcksOf(e) # {}
           /\ \E n \in SeqCallsOf(k) : \E i \in DOMAIN dml_calls : \E a \in AcksOf(k) :
                  /\ dml_calls[i].during = k
                  /\ dml_calls[i].path = "sweep"
                  /\ i <= seq_calls[n].ndml
                  /\ n <= acks[a].nseq


(***************************************************************************)
(* C15.  LSN round trip.  For the LSN integers x and y of the 64-bit       *)
(* unsigned range: lsn_to_int(int_to_lsn(x)) = x; int_to_lsn(0) is '0/0'   *)
(* and lsn_to_int('0/0') is 0; the integer decoded from a text is          *)
(* (high << 32) | low for the two halves of the text, each below 2^32;     *)
(* and x < y exactly when the text of x is below the text of y as an LSN   *)
(* (high halves compared first, then low halves).  For an LSN below 2^31   *)
(* the functions the handler uses give the same text and the same integer. *)
(***************************************************************************)
WideLess(a, b) ==
    \/ Len(a) < Len(b)
    \/ /\ Len(a) = Len(b)
       /\ \E i \in DOMAIN a : a[i] < b[i] /\ \A j \in 1..(i - 1) : a[j] = b[j]

LsnLess(s, t) ==
    \/ WideLess(WideHexParse(s.high), WideHexParse(t.high))
    \/ /\ WideHexParse(s.high) = WideHexParse(t.high)
       /\ WideLess(WideHexParse(s.low), WideHexParse(t.low))

\* (high << 32) | low for two integers below 2^32
HighOrLow(high, low) ==
    WideNormalize(high \o [i \in 1..(2 - Len(low)) |-> 0] \o low)

FitsHandler(w) == Len(w) = 1 \/ (Len(w) = 2 /\ w[1] < 32768)

C15_LsnRoundTrip ==
    /\ codec.stage \in {"encoded", "decoded"} =>
           /\ codec.x = <<0>> <=> codec.sx = ZeroLsn
           /\ Len(WideHexParse(codec.sx.high)) <= 2
           /\ Len(WideHexParse(codec.sx.low)) <= 2
           /\ codec.sx.high = WideHexFormat(WideHexParse(codec.sx.high))
           /\ codec.sx.low = WideHexFormat(WideHexParse(codec.sx.low))
           /\ WideLess(codec.x, codec.y) <=> LsnLess(codec.sx, codec.sy)
           /\ FitsHandler(codec.x) =>
                  /\ int_to_lsn(WideToInt(codec.x)) = codec.sx
                  /\ lsn_to_int(codec.sx) = WideToInt(codec.x)
    /\ codec.stage = "decoded" =>
           /\ codec.bx = codec.x
           /\ codec.by = codec.y
           /\ codec.sx = ZeroLsn => codec.bx = <<0>>
           /\ codec.bx = HighOrLow(WideHexParse(codec.sx.high), WideHexParse(codec.sx.low))
           /\ WideLess(codec.bx, codec.by) <=> LsnLess(codec.sx, codec.sy)

\* 0x100000000000a was encoded as '10000/a' and decoded back, next to
\* 2^64 - 1 encoded as 'ffffffff/ffffffff'.
C15_Witness ==
    /\ codec.stage = "decoded"
    /\ codec.x = <<1, 0, 0, 10>>
    /\ codec.sx = [high |-> <<1, 0, 0, 0, 0>>, low |-> <<10>>]
    /\ codec.bx = <<1, 0, 0, 10>>
    /\ codec.y = <<65535, 65535, 65535, 65535>>
    /\ codec.sy = [high |-> [i \in 1..8 |-> 15], low |-> [i \in 1..8 |-> 15]]
    /\ codec.by = codec.y


(***************************************************************************)
(* C16.  The sweep of a message with LSN m partitions the buffer: the      *)
(* entries with lsn <= m are passed to apply_dml in the order in which     *)
(* they were appended and are removed, the entries with lsn > m stay,      *)
(* unchanged and in their order, and last_applied_ddl_lsn is not changed.  *)
(***************************************************************************)
SweepCallsOf(entries, during) ==
    [i \in 1..Len(entries) |-> DmlCall(entries[i][1], entries[i][2], "sweep", during)]

Partitioned(buffer, m, calls, during) ==
    LET AtOrBelow(e) == e[1] <= m
        Above(e) == e[1] > m
    IN  [buffer |-> SelectSeq(buffer, Above),
         calls |-> calls \o SweepCallsOf(SelectSeq(buffer, AtOrBelow), during)]

C16_SweepPartitionsBuffer ==
    [][ pc = "sweep" =>
          LET after == Partitioned(BUFFERED_DMLS, msg.data_start, dml_calls, nmsgs)
          IN  /\ BUFFERED_DMLS' = after.buffer
              /\ dml_calls' = after.calls
              /\ applied_ddl_lsn_str' = applied_ddl_lsn_str
              /\ applied_ddl_lsn_int' = applied_ddl_lsn_int ]_vars

(***************************************************************************)
(* C17.  Over the polls of a run the DDL log rows are executed in          *)
(* ascending LSN order: a poll fetches only rows with lsn above            *)
(* last_applied_ddl_lsn, in ascending order; the first poll starts from    *)
(* '0/0' and each later poll from what the poll before it returned, which  *)
(* is never below what that poll started from; a row that was applied or   *)
(* skipped is not touched by a later poll; and of two successful           *)
(* executions the later one is of the row with the higher lsn.             *)
(***************************************************************************)
\* the event (k, i) comes before the event (n, j)
PollEventBefore(k, i, n, j) == k < n \/ (k = n /\ i < j)

C17_DdlInAscendingLsnOrder ==
    \A k \in DOMAIN polls :
        LET p == polls[k]
        IN  /\ p.since = IF k = 1 THEN ZeroLsn ELSE polls[k - 1].returned
            /\ PgLsnValue(p.returned) >= PgLsnValue(p.since)
            /\ Len(p.done) <= Len(p.ddls)
            /\ \A i \in DOMAIN p.done : p.done[i].lsn = p.ddls[i].lsn
            /\ \A i \in DOMAIN p.ddls :
                   /\ PgLsnValue(p.ddls[i].lsn) > PgLsnValue(p.since)
                   /\ \A j \in DOMAIN p.ddls :
                          i < j => PgLsnValue(p.ddls[i].lsn) < PgLsnValue(p.ddls[j].lsn)
            /\ \A i \in DOMAIN p.done : \A n \in DOMAIN polls : \A j \in DOMAIN polls[n].done :
                   PollEventBefore(k, i, n, j) =>
                       /\ p.done[i].outcome # "failed" =>
                              polls[n].done[j].lsn # p.done[i].lsn
                       /\ (p.done[i].outcome = "applied" /\
                           polls[n].done[j].outcome = "applied") =>
                              PgLsnValue(p.done[i].lsn) < PgLsnValue(polls[n].done[j].lsn)

\* The first poll applied the row at lsn 5; the row at lsn 10 came later
\* and the second poll, started from '0/5', fetched and applied only that.
C17_Witness ==
    /\ Len(polls) = 2
    /\ polls[1].done = <<[lsn |-> PgLsnText(5), outcome |-> "applied"]>>
    /\ polls[2].since = PgLsnText(5)
    /\ Len(polls[2].ddls) = 1
    /\ polls[2].done = <<[lsn |-> PgLsnText(10), outcome |-> "applied"]>>
    /\ Cardinality(ddl_log) = 2


(***************************************************************************)
(* C18.  When the messages received so far came with non-decreasing LSNs,  *)
(* the buffer is empty when a message is about to be acknowledged and      *)
(* after handle_message has returned, whatever last_applied_ddl_lsn is     *)
(* and whether or not the poll failed on a DDL row.                        *)
(***************************************************************************)
NonDecreasingLsns ==
    \A k \in DOMAIN stream :
        k > 1 => stream[k - 1].data_start <= stream[k].data_start

C18_BufferEmptyAtAck ==
    (NonDecreasingLsns /\ nmsgs > 0 /\ pc \in {"ack", "recv"}) => BUFFERED_DMLS = <<>>

\* The second of two messages with increasing LSNs is about to be
\* acknowledged; its poll failed on a DDL row, its change was buffered above
\* last_applied_ddl_lsn and the sweep applied it.
C18_Witness ==
    /\ pc = "ack"
    /\ nmsgs = 2
    /\ stream[1].data_start < stream[2].data_start
    /\ PollFailed(2)
    /\ BUFFERED_DMLS = <<>>
    /\ \E i \in DOMAIN dml_calls :
           /\ dml_calls[i].during = 2
           /\ dml_calls[i].path = "sweep"
           /\ dml_calls[i].lsn > applied_ddl_lsn_int


(***************************************************************************)
(* C19.  Row changes are passed to apply_dml in the order in which they    *)
(* arrived: by message, then by position in the message's change list.     *)
(* A change of an earlier message is never applied after a change of a     *)
(* later message, also when one went through the buffer and the other was  *)
(* applied immediately.                                                    *)
(***************************************************************************)
C19_AppliedInArrivalOrder ==
    \A i, j \in DOMAIN dml_calls :
        i < j => /\ ArrivedBefore(dml_calls[i].id, dml_calls[j].id)
                 /\ dml_calls[i].during <= dml_calls[j].during

\* Two messages with increasing LSNs: the change of the first went through
\* the buffer, the change of the second was applied immediately, after it.
C19_Witness ==
    /\ nmsgs = 2
    /\ stream[1].data_start < stream[2].data_start
    /\ Len(dml_calls) = 2
    /\ dml_calls[1].id[1] = 1
    /\ dml_calls[1].path = "sweep"
    /\ dml_calls[2].id[1] = 2
    /\ dml_calls[2].path = "immediate"

====
